---- MODULE Spec2Model ----
(***************************************************************************)
(* GHS_Searcher.py: the corpus loader (load_hymns), the embedding step     *)
(* (compute_embeddings), the scripture lookup (fetch_bible_verse), the     *)
(* matcher (find_best_hymns) and the "Find Hymns" button handler of the    *)
(* "Search Hymns" page.                                                    *)
(*                                                                         *)
(* A Python str is a sequence of one-character strings; None is the        *)
(* value NoneVal, which no sequence of characters equals.                  *)
(***************************************************************************)
EXTENDS Integers, Sequences, FiniteSets, TLC

VARIABLES
    file,          \* hymns.txt: [exists, lines]
    pc,            \* position in the script run
    i,             \* load_hymns: index of the next line of content
    hymn_number,   \* load_hymns: local
    title,         \* load_hymns: local
    lyrics,        \* load_hymns: local (list of lines)
    hymns,         \* dict hymn_key -> lyrics, in insertion order
    hymn_dict,     \* dict hymn_number -> hymn_key
    names_defined, \* hymn_titles, hymn_lyrics, hymn_embeddings are bound
    hymn_titles,   \* list(hymns.keys())
    hymn_lyrics,   \* list(hymns.values())
    query,         \* st.text_input value at the click
    hymns_found,   \* handler local
    bible_text,    \* handler local: what fetch_bible_verse returned
    search_text,   \* first argument of the pending find_best_hymns call
    top_hymns,     \* handler local: what find_best_hymns returned
    shown,         \* the records the handler rendered, in order
    calls,         \* calls made by the handler, in order
    ui,            \* st.error / st.warning / st.subheader outputs, in order
    exc            \* the unhandled exception that ended the run, if any

vars == <<file, pc, i, hymn_number, title, lyrics, hymns, hymn_dict,
          names_defined, hymn_titles, hymn_lyrics, query, hymns_found,
          bible_text, search_text, top_hymns, shown, calls, ui, exc>>

loadVars == <<i, hymn_number, title, lyrics>>
indexVars == <<names_defined, hymn_titles, hymn_lyrics>>
searchVars == <<query, hymns_found, bible_text, search_text, top_hymns, shown, calls>>

-----------------------------------------------------------------------------
(* Bounds *)

MaxLines == 5      \* longest hymn file of free lines (SpecLoad)
NumGroups == 5     \* groups of the hymn file the search runs on (Spec)

-----------------------------------------------------------------------------
(* Python str and list operations, as the code uses them *)

NoneVal == <<"None">>

Whitespace == {" ", "\t", "\n"}
Digit == {"0", "1", "2", "3", "4", "5", "6", "7", "8", "9"}
UpperAlpha == <<"A","B","C","D","E","F","G","H","I","J","K","L","M",
                "N","O","P","Q","R","S","T","U","V","W","X","Y","Z">>
LowerAlpha == <<"a","b","c","d","e","f","g","h","i","j","k","l","m",
                "n","o","p","q","r","s","t","u","v","w","x","y","z">>

\* bool(x) of a str-or-None value
Truthy(x) == x # NoneVal /\ x # <<>>

RECURSIVE LStrip(_)
LStrip(s) == IF s # <<>> /\ Head(s) \in Whitespace THEN LStrip(Tail(s)) ELSE s

RECURSIVE RStrip(_)
RStrip(s) ==
    IF s # <<>> /\ s[Len(s)] \in Whitespace
    THEN RStrip(SubSeq(s, 1, Len(s) - 1))
    ELSE s

\* str.strip()
Strip(s) == RStrip(LStrip(s))

\* str.startswith(p)
StartsWith(s, p) == Len(s) >= Len(p) /\ SubSeq(s, 1, Len(p)) = p

\* needle in hay
Contains(hay, needle) ==
    \E k \in 0..(Len(hay) - Len(needle)) :
        SubSeq(hay, k + 1, k + Len(needle)) = needle

\* str.replace(old, new): every non-overlapping occurrence, left to right
RECURSIVE Replace(_, _, _)
Replace(s, old, new) ==
    IF Len(s) < Len(old) THEN s
    ELSE IF StartsWith(s, old)
         THEN new \o Replace(SubSeq(s, Len(old) + 1, Len(s)), old, new)
         ELSE <<Head(s)>> \o Replace(Tail(s), old, new)

\* str.split(" "): consecutive separators yield empty parts
RECURSIVE Split(_)
Split(s) ==
    IF \A k \in 1..Len(s) : s[k] # " " THEN <<s>>
    ELSE LET k == CHOOSE k \in 1..Len(s) :
                     s[k] = " " /\ \A j \in 1..(k - 1) : s[j] # " "
         IN <<SubSeq(s, 1, k - 1)>> \o Split(SubSeq(s, k + 1, Len(s)))

LowerChar(c) ==
    IF \E k \in 1..26 : UpperAlpha[k] = c
    THEN LowerAlpha[CHOOSE k \in 1..26 : UpperAlpha[k] = c]
    ELSE c

\* str.lower()
Lower(s) == [k \in 1..Len(s) |-> LowerChar(s[k])]

\* str.isdigit(): non-empty and every character a digit
IsDigit(s) == s # <<>> /\ \A k \in 1..Len(s) : s[k] \in Digit

\* any(char.isdigit() for char in s)
AnyDigit(s) == \E k \in 1..Len(s) : s[k] \in Digit

\* "\n".join(ls)
RECURSIVE Join(_)
Join(ls) ==
    IF ls = <<>> THEN <<>>
    ELSE IF Len(ls) = 1 THEN ls[1]
    ELSE ls[1] \o <<"\n">> \o Join(Tail(ls))

-----------------------------------------------------------------------------
(* dict operations (insertion-ordered) *)

DictKeys(d) == [k \in 1..Len(d) |-> d[k].key]
DictValues(d) == [k \in 1..Len(d) |-> d[k].val]
HasKey(d, key) == \E k \in 1..Len(d) : d[k].key = key
DictGet(d, key) == d[CHOOSE k \in 1..Len(d) : d[k].key = key].val

\* d[key] = val: an existing key keeps its position
DictSet(d, key, val) ==
    IF HasKey(d, key)
    THEN [k \in 1..Len(d) |-> IF d[k].key = key THEN [key |-> key, val |-> val] ELSE d[k]]
    ELSE Append(d, [key |-> key, val |-> val])

EmptyMap == [k \in {} |-> <<>>]
MapSet(m, key, val) == [k \in DOMAIN m \cup {key} |-> IF k = key THEN val ELSE m[k]]

-----------------------------------------------------------------------------
(* load_hymns *)

HeaderMarker == <<"#", " ", "G", "H", "S">>
TitleMarker == <<"T", "i", "t", "l", "e", ":">>

\* f"GHS {hymn_number} - {title}"
HymnKey(number, t) == <<"G", "H", "S", " ">> \o number \o <<" ", "-", " ">> \o t

\* lines 42-46: the number a header line carries, or None
HeaderNumber(line) ==
    LET parts == Split(line)
    IN IF Len(parts) > 2 THEN Strip(parts[3]) ELSE NoneVal

\* line 49 left out: the title survives the header
HeaderTitleKept(t) == t

\* line 49: the title after a header line
HeaderTitle(t) == NoneVal

\* line 53
TitleOf(line) == Strip(Replace(line, TitleMarker, <<>>))

\* lines 37-40 and 60-63: store the record in progress
SaveHymn(d, number, t, ls) == DictSet(d, HymnKey(number, t), Strip(Join(ls)))

CurLine == Strip(file.lines[i])

\* lines 21-30
LoadOpen ==
    /\ pc = "load_open"
    /\ file.exists
    /\ hymn_number' = NoneVal
    /\ title' = NoneVal
    /\ lyrics' = <<>>
    /\ i' = 1
    /\ pc' = "load_loop"
    /\ UNCHANGED <<file, hymns, hymn_dict, indexVars, searchVars, ui, exc>>

\* lines 24-26
LoadFileNotFound ==
    /\ pc = "load_open"
    /\ ~file.exists
    /\ ui' = Append(ui, "error: Hymn file not found")
    /\ hymns' = <<>>
    /\ hymn_dict' = EmptyMap
    /\ pc' = "loaded"
    /\ UNCHANGED <<file, loadVars, indexVars, searchVars, exc>>

\* lines 36-49
LoadHeader ==
    /\ pc = "load_loop"
    /\ i <= Len(file.lines)
    /\ StartsWith(CurLine, HeaderMarker)
    /\ IF Truthy(hymn_number) /\ Truthy(title)
       THEN /\ hymns' = SaveHymn(hymns, hymn_number, title, lyrics)
            /\ hymn_dict' = MapSet(hymn_dict, hymn_number, HymnKey(hymn_number, title))
       ELSE UNCHANGED <<hymns, hymn_dict>>
    /\ hymn_number' = HeaderNumber(CurLine)
    /\ lyrics' = <<>>
    /\ title' = HeaderTitle(title)
    /\ i' = i + 1
    /\ UNCHANGED <<file, pc, indexVars, searchVars, ui, exc>>

\* lines 52-53
LoadTitle ==
    /\ pc = "load_loop"
    /\ i <= Len(file.lines)
    /\ ~StartsWith(CurLine, HeaderMarker)
    /\ StartsWith(CurLine, TitleMarker)
    /\ title' = TitleOf(CurLine)
    /\ i' = i + 1
    /\ UNCHANGED <<file, pc, hymn_number, lyrics, hymns, hymn_dict, indexVars,
                   searchVars, ui, exc>>

\* lines 56-57
LoadLyric ==
    /\ pc = "load_loop"
    /\ i <= Len(file.lines)
    /\ ~StartsWith(CurLine, HeaderMarker)
    /\ ~StartsWith(CurLine, TitleMarker)
    /\ CurLine # <<>>
    /\ lyrics' = Append(lyrics, CurLine)
    /\ i' = i + 1
    /\ UNCHANGED <<file, pc, hymn_number, title, hymns, hymn_dict, indexVars,
                   searchVars, ui, exc>>

\* lines 32-57: a blank line takes no branch
LoadBlank ==
    /\ pc = "load_loop"
    /\ i <= Len(file.lines)
    /\ CurLine = <<>>
    /\ i' = i + 1
    /\ UNCHANGED <<file, pc, hymn_number, title, lyrics, hymns, hymn_dict,
                   indexVars, searchVars, ui, exc>>

\* lines 59-67
LoadEnd ==
    /\ pc = "load_loop"
    /\ i > Len(file.lines)
    /\ IF Truthy(hymn_number) /\ Truthy(title)
       THEN /\ hymns' = SaveHymn(hymns, hymn_number, title, lyrics)
            /\ hymn_dict' = MapSet(hymn_dict, hymn_number, HymnKey(hymn_number, title))
            /\ UNCHANGED ui
       ELSE /\ ui' = Append(ui, "warning: Skipping last hymn")
            /\ UNCHANGED <<hymns, hymn_dict>>
    /\ pc' = "loaded"
    /\ UNCHANGED <<file, loadVars, indexVars, searchVars, exc>>

NextLoad ==
    \/ LoadOpen
    \/ LoadFileNotFound
    \/ LoadHeader
    \/ LoadTitle
    \/ LoadLyric
    \/ LoadBlank
    \/ LoadEnd

-----------------------------------------------------------------------------
(* Hymn files *)

MissingFile == [exists |-> FALSE, lines |-> <<>>]

LinePool ==
    { <<"#", " ", "G", "H", "S", " ", "1">>,
      <<"#", " ", "G", "H", "S", " ", "2", " ">>,
      <<"#", " ", "G", "H", "S">>,
      <<"T", "i", "t", "l", "e", ":", " ", "a">>,
      <<"T", "i", "t", "l", "e", ":", " ", "b", " ", "T", "i", "t", "l", "e", ":", " ", "c">>,
      <<" ", "x", " ", "y", " ">>,
      <<" ">> }

RECURSIVE SeqsUpTo(_, _)
SeqsUpTo(S, n) ==
    IF n = 0 THEN { <<>> }
    ELSE LET shorter == SeqsUpTo(S, n - 1)
         IN shorter \cup { Append(s, x) : s \in shorter, x \in S }

LineFiles == { [exists |-> TRUE, lines |-> ls] : ls \in SeqsUpTo(LinePool, MaxLines) }

StartState ==
    /\ pc = "load_open"
    /\ i = 0
    /\ hymn_number = NoneVal
    /\ title = NoneVal
    /\ lyrics = <<>>
    /\ hymns = <<>>
    /\ hymn_dict = EmptyMap
    /\ names_defined = FALSE
    /\ hymn_titles = <<>>
    /\ hymn_lyrics = <<>>
    /\ query = <<>>
    /\ hymns_found = FALSE
    /\ bible_text = NoneVal
    /\ search_text = <<>>
    /\ top_hymns = <<>>
    /\ shown = <<>>
    /\ calls = <<>>
    /\ ui = <<>>
    /\ exc = "none"

InitLoad ==
    /\ file \in LineFiles \cup {MissingFile}
    /\ StartState

SpecLoad == InitLoad /\ [][NextLoad]_vars

-----------------------------------------------------------------------------
(* compute_embeddings and the module-level guard *)

\* lines 125-126, 71-76
ComputeEmbeddings ==
    /\ pc = "loaded"
    /\ hymns # <<>>
    /\ hymn_titles' = DictKeys(hymns)
    /\ hymn_lyrics' = DictValues(hymns)
    /\ names_defined' = TRUE
    /\ pc' = "idle"
    /\ UNCHANGED <<file, loadVars, hymns, hymn_dict, searchVars, ui, exc>>

\* line 125: an empty corpus binds none of the three names
SkipEmbeddings ==
    /\ pc = "loaded"
    /\ hymns = <<>>
    /\ pc' = "idle"
    /\ UNCHANGED <<file, loadVars, hymns, hymn_dict, indexVars, searchVars, ui, exc>>

-----------------------------------------------------------------------------
(* fetch_bible_verse *)

Absent == NoneVal

\* lines 101-105
FetchUrl(reference) ==
    IF ~Contains(reference, <<":">>)
    THEN [endpoint |-> "summary", reference |-> reference]
    ELSE [endpoint |-> "verse", reference |-> reference]

\* lines 111-117: data is the decoded response
FetchResult(data) ==
    IF data.text # Absent THEN data.text
    ELSE IF data.summary # Absent THEN data.summary
    ELSE NoneVal

-----------------------------------------------------------------------------
(* find_best_hymns *)

ScoreExact == 100    \* 1.0, scores are in hundredths
ExactCap == 3
TopK == 3

\* line 83 without the two lower() calls
MatchesCaseSensitive(q, lyr) == Contains(lyr, q)

\* line 83
Matches(q, lyr) == Contains(Lower(lyr), Lower(q))

\* lines 80-84: the indices of the matching records, in corpus order
RECURSIVE MatchingFrom(_, _, _)
MatchingFrom(q, lyrs, k) ==
    IF k > Len(lyrs) THEN <<>>
    ELSE (IF Matches(q, lyrs[k]) THEN <<k>> ELSE <<>>) \o MatchingFrom(q, lyrs, k + 1)

Matching(q, lyrs) == MatchingFrom(q, lyrs, 1)

\* line 87: matching_hymns[:3]
FirstN(s, n) == SubSeq(s, 1, IF Len(s) < n THEN Len(s) ELSE n)

\* line 92: torch.topk(similarities, k).indices, which needs k <= len
TopIndices(sims, k) ==
    { idx \in [1..k -> DOMAIN sims] :
        /\ \A a, b \in 1..k : a # b => idx[a] # idx[b]
        /\ \A a \in 1..(k - 1) : sims[idx[a]] >= sims[idx[a + 1]]
        /\ \A j \in DOMAIN sims :
              (\A a \in 1..k : idx[a] # j) => sims[j] <= sims[idx[k]] }

Result(titles, lyrs, idx, score) ==
    [k \in 1..Len(idx) |->
        [title |-> titles[idx[k]], lyrics |-> lyrs[idx[k]], score |-> score[k]]]

-----------------------------------------------------------------------------
(* The "Find Hymns" button handler, lines 138-200 *)

Chr(n) == <<"0", "1", "2", "3", "4", "5", "6", "7", "8", "9">>[n + 1]

Queries ==
    { <<>>,                                      \* nothing typed
      <<" ", " ">>,                              \* blanks only
      <<"1">>,
      <<"2">>,
      <<" ", "1", " ">>,
      <<"G", "H", "S", " ", "1">>,
      <<"a", "b">>,
      <<"z", "z">>,
      <<"J", " ", "3", ":", "1">>,
      <<"t", " ", "J", " ", "3", ":", "1">> }

BibleTexts == { <<"a", "b">>, <<"z", "z">>, <<>> }

\* what response.json() can hold
Responses ==
    { [text |-> t, summary |-> Absent] : t \in BibleTexts }
    \cup { [text |-> Absent, summary |-> <<"z", "z">>],
           [text |-> <<"a", "b">>, summary |-> <<"z", "z">>],
           [text |-> Absent, summary |-> Absent] }

Scores == {25, 75}

\* line 155 left out: hymns_found stays False
NumberNotFound == FALSE

\* line 155
NumberFound == TRUE

\* lines 164-177 and 184-197: one heading and one expander per result
Render(results) ==
    [k \in 1..Len(results) |-> [title |-> results[k].title, lyrics |-> results[k].lyrics]]

\* lines 199-200
ClickEmpty ==
    /\ pc = "idle"
    /\ \E q \in Queries :
        /\ q = <<>>
        /\ query' = q
    /\ ui' = Append(ui, "warning: Please enter a topic")
    /\ pc' = "done"
    /\ UNCHANGED <<file, loadVars, hymns, hymn_dict, indexVars, hymns_found,
                   bible_text, search_text, top_hymns, shown, calls, exc>>

\* lines 143-155
ClickNumber ==
    /\ pc = "idle"
    /\ \E q \in Queries :
        /\ q # <<>>
        /\ IsDigit(q) /\ q \in DOMAIN hymn_dict
        /\ query' = q
        /\ LET hymn_key == hymn_dict[q]
           IN /\ ui' = Append(ui, "subheader: hymn_key")
              /\ shown' = <<[title |-> hymn_key, lyrics |-> DictGet(hymns, hymn_key)]>>
        /\ hymns_found' = NumberFound
        /\ IF NumberFound
           THEN pc' = "done" /\ UNCHANGED search_text
           ELSE pc' = "find" /\ search_text' = q
    /\ UNCHANGED <<file, loadVars, hymns, hymn_dict, indexVars, bible_text,
                   top_hymns, calls, exc>>

\* lines 158-160: the call of fetch_bible_verse(query)
ClickBible ==
    /\ pc = "idle"
    /\ \E q \in Queries :
        /\ q # <<>>
        /\ ~(IsDigit(q) /\ q \in DOMAIN hymn_dict)
        /\ AnyDigit(q) /\ Contains(q, <<":">>)
        /\ query' = q
        /\ calls' = Append(calls, [fn |-> "fetch_bible_verse", arg |-> q])
    /\ pc' = "fetch"
    /\ UNCHANGED <<file, loadVars, hymns, hymn_dict, indexVars, hymns_found,
                   bible_text, search_text, top_hymns, shown, ui, exc>>

\* lines 181-182: neither branch applies
ClickText ==
    /\ pc = "idle"
    /\ \E q \in Queries :
        /\ q # <<>>
        /\ ~(IsDigit(q) /\ q \in DOMAIN hymn_dict)
        /\ ~(AnyDigit(q) /\ Contains(q, <<":">>))
        /\ query' = q
        /\ search_text' = q
    /\ pc' = "find"
    /\ UNCHANGED <<file, loadVars, hymns, hymn_dict, indexVars, hymns_found,
                   bible_text, top_hymns, shown, calls, ui, exc>>

\* lines 107-117, then 161-162 or 181-182
FetchReturns ==
    /\ pc = "fetch"
    /\ \E data \in Responses :
        LET r == FetchResult(data)
        IN /\ bible_text' = r
           /\ calls' = Append(calls, [fn |-> "requests.get", arg |-> FetchUrl(query)])
           /\ ui' = IF r = NoneVal THEN Append(ui, "error: No text or summary found") ELSE ui
           /\ search_text' = IF Truthy(r) THEN r ELSE query
    /\ pc' = "find"
    /\ UNCHANGED <<file, loadVars, hymns, hymn_dict, indexVars, query, hymns_found,
                   top_hymns, shown, exc>>

\* lines 118-120, then 181-182
FetchRaises ==
    /\ pc = "fetch"
    /\ bible_text' = NoneVal
    /\ calls' = Append(calls, [fn |-> "requests.get", arg |-> FetchUrl(query)])
    /\ ui' = Append(ui, "error: Error fetching Bible verse")
    /\ search_text' = query
    /\ pc' = "find"
    /\ UNCHANGED <<file, loadVars, hymns, hymn_dict, indexVars, query, hymns_found,
                   top_hymns, shown, exc>>

\* lines 162 and 182: hymn_titles is unbound when the corpus is empty
FindNameError ==
    /\ pc = "find"
    /\ ~names_defined
    /\ exc' = "NameError"
    /\ pc' = "crashed"
    /\ UNCHANGED <<file, loadVars, hymns, hymn_dict, indexVars, searchVars, ui>>

\* lines 80-87, then the rendering
FindSubstring ==
    /\ pc = "find"
    /\ names_defined
    /\ LET m == Matching(search_text, hymn_lyrics)
           idx == FirstN(m, ExactCap)
       IN /\ m # <<>>
          /\ top_hymns' = Result(hymn_titles, hymn_lyrics, idx,
                                 [k \in 1..Len(idx) |-> ScoreExact])
    /\ calls' = Append(calls, [fn |-> "find_best_hymns", arg |-> search_text])
    /\ shown' = Render(top_hymns')
    /\ ui' = Append(ui, "subheader: Recommended Hymns")
    /\ hymns_found' = (hymns_found \/ Truthy(bible_text))
    /\ pc' = "done"
    /\ UNCHANGED <<file, loadVars, hymns, hymn_dict, indexVars, query, bible_text,
                   search_text, exc>>

\* lines 89-95, then the rendering
FindSemantic ==
    /\ pc = "find"
    /\ names_defined
    /\ Matching(search_text, hymn_lyrics) = <<>>
    /\ Len(hymn_lyrics) >= TopK
    /\ \E sims \in [1..Len(hymn_lyrics) -> Scores] :
        \E idx \in TopIndices(sims, TopK) :
            top_hymns' = Result(hymn_titles, hymn_lyrics, idx,
                                [k \in 1..TopK |-> sims[idx[k]]])
    /\ calls' = calls \o <<[fn |-> "find_best_hymns", arg |-> search_text],
                           [fn |-> "model.encode", arg |-> search_text]>>
    /\ shown' = Render(top_hymns')
    /\ ui' = Append(ui, "subheader: Recommended Hymns")
    /\ hymns_found' = (hymns_found \/ Truthy(bible_text))
    /\ pc' = "done"
    /\ UNCHANGED <<file, loadVars, hymns, hymn_dict, indexVars, query, bible_text,
                   search_text, exc>>

\* line 92: torch.topk raises when the corpus has fewer than k records
FindTopkError ==
    /\ pc = "find"
    /\ names_defined
    /\ Matching(search_text, hymn_lyrics) = <<>>
    /\ Len(hymn_lyrics) < TopK
    /\ calls' = calls \o <<[fn |-> "find_best_hymns", arg |-> search_text],
                           [fn |-> "model.encode", arg |-> search_text]>>
    /\ exc' = "RuntimeError"
    /\ pc' = "crashed"
    /\ UNCHANGED <<file, loadVars, hymns, hymn_dict, indexVars, query, hymns_found,
                   bible_text, search_text, top_hymns, shown, ui>>

Next ==
    \/ LoadOpen
    \/ LoadFileNotFound
    \/ LoadHeader
    \/ LoadTitle
    \/ LoadLyric
    \/ LoadBlank
    \/ LoadEnd
    \/ ComputeEmbeddings
    \/ SkipEmbeddings
    \/ ClickEmpty
    \/ ClickNumber
    \/ ClickBible
    \/ ClickText
    \/ FetchReturns
    \/ FetchRaises
    \/ FindNameError
    \/ FindSubstring
    \/ FindSemantic
    \/ FindTopkError

-----------------------------------------------------------------------------
(* The hymn file the search runs on: groups "# GHS n", "Title: ...", one    *)
(* body line and a blank separator, for any subset of the numbers 1..n     *)

GroupBody(n) ==
    CASE n = 1 -> <<"a", "b", " ", "2">>
      [] n = 2 -> <<"c", "d">>
      [] n = 3 -> <<"x", "A", "B">>
      [] OTHER -> <<"a", "b">>

Group(n) ==
    << HeaderMarker \o <<" ">> \o Chr(n),
       TitleMarker \o <<" ", LowerAlpha[n]>>,
       GroupBody(n),
       <<>> >>

RECURSIVE GroupLines(_, _)
GroupLines(S, n) ==
    IF n > NumGroups THEN <<>>
    ELSE (IF n \in S THEN Group(n) ELSE <<>>) \o GroupLines(S, n + 1)

GroupFiles == { [exists |-> TRUE, lines |-> GroupLines(S, 1)] : S \in SUBSET (1..NumGroups) }

Init ==
    /\ file \in GroupFiles \cup {MissingFile}
    /\ StartState

Spec == Init /\ [][Next]_vars

-----------------------------------------------------------------------------
(* Vocabulary of the properties *)

Range(f) == { f[k] : k \in DOMAIN f }

Loaded == pc \notin {"load_open", "load_loop"}
Clicked == pc \in {"fetch", "find", "done", "crashed"}
Called(fn) == \E k \in 1..Len(calls) : calls[k].fn = fn
FindArg == calls[CHOOSE k \in 1..Len(calls) : calls[k].fn = "find_best_hymns"].arg

\* the record a number names
NumberRecord(n) == [title |-> hymn_dict[n], lyrics |-> DictGet(hymns, hymn_dict[n])]

\* the query without the catalog token "GHS" in front and without blanks around it
Normalised(q) ==
    LET t == Strip(q)
    IN IF StartsWith(t, <<"G", "H", "S">>) THEN Strip(SubSeq(t, 4, Len(t))) ELSE t

\* hay contains needle, letters compared without regard to case
FoldedAt(hay, needle, off) ==
    \A j \in 1..Len(needle) : LowerChar(hay[off + j]) = LowerChar(needle[j])
FoldedContains(hay, needle) ==
    \E off \in 0..(Len(hay) - Len(needle)) : FoldedAt(hay, needle, off)

\* the corpus positions whose body contains s
MatchSet(s) == { k \in 1..Len(hymn_lyrics) : FoldedContains(hymn_lyrics[k], s) }
\* those of them with fewer than three matching positions before them
FirstThree(s) == { k \in MatchSet(s) : Cardinality({ j \in MatchSet(s) : j < k }) < 3 }

NonIncreasing(rs) == \A k \in 1..(Len(rs) - 1) : rs[k].score >= rs[k + 1].score

-----------------------------------------------------------------------------
\* C1: a query that is an existing record's number, optionally with "GHS" in
\* front and blanks around it, ends with exactly that one record rendered,
\* whatever other bodies contain the numeral.
C1_ExactNumberPrecedence ==
    (pc = "done" /\ IsDigit(Normalised(query))
        /\ Normalised(query) \in DOMAIN hymn_dict)
    => shown = <<NumberRecord(Normalised(query))>>

\* C2: an all-digit query that is a key of hymn_dict ends the handler in the
\* number branch: that one record is rendered and neither fetch_bible_verse
\* nor find_best_hymns (substring or semantic) is called.
C2_NumberShortCircuits ==
    (Clicked /\ IsDigit(query) /\ query \in DOMAIN hymn_dict)
    => /\ pc = "done"
       /\ calls = <<>>
       /\ top_hymns = <<>>
       /\ shown = <<NumberRecord(query)>>

\* C2 witness: the number 2 was looked up while record 1's body holds "2".
C2_Witness ==
    /\ pc = "done"
    /\ query = <<"2">>
    /\ query \in DOMAIN hymn_dict
    /\ \E k \in 1..Len(hymn_lyrics) :
          hymn_titles[k] # hymn_dict[query] /\ Contains(hymn_lyrics[k], query)

IsLetter(c) == \E k \in 1..26 : c = UpperAlpha[k] \/ c = LowerAlpha[k]

\* a name token, a blank, chapter digits, a colon, verse digits
IsReference(s) ==
    \E a, b \in 1..Len(s) :
        /\ a + 2 <= b /\ b + 2 <= Len(s)
        /\ \A k \in 1..a : IsLetter(s[k])
        /\ s[a + 1] = " "
        /\ \A k \in (a + 2)..b : s[k] \in Digit
        /\ s[b + 1] = ":"
        /\ \A k \in (b + 2)..Len(s) : s[k] \in Digit

\* where a query holds a reference
RefSpans(q) ==
    { sp \in (1..Len(q)) \X (1..Len(q)) :
        /\ sp[1] <= sp[2]
        /\ IsReference(SubSeq(q, sp[1], sp[2]))
        /\ (sp[1] = 1 \/ ~IsLetter(q[sp[1] - 1]))
        /\ (sp[2] = Len(q) \/ q[sp[2] + 1] \notin Digit) }

Rewritten(q, sp, text) == SubSeq(q, 1, sp[1] - 1) \o text \o SubSeq(q, sp[2] + 1, Len(q))

\* C3: for a query holding a scripture reference inside longer text, the
\* string handed to find_best_hymns is the query with the reference replaced
\* by the resolved text, or with the reference removed when nothing resolved.
C3_ScriptureSubstitution ==
    (pc = "find" /\ names_defined /\ Called("fetch_bible_verse"))
    => \A sp \in RefSpans(query) :
          sp # <<1, Len(query)>>
          => search_text =
                Rewritten(query, sp, IF Truthy(bible_text) THEN bible_text ELSE <<>>)

\* C4: a query that is empty or blanks only gets the warning and nothing else:
\* no strategy is called and nothing is rendered.
C4_EmptyQueryRejected ==
    (Clicked /\ Strip(query) = <<>>)
    => /\ calls = <<>>
       /\ pc = "done" => (shown = <<>> /\ ui[Len(ui)] = "warning: Please enter a topic")

\* C5: no run ends in an unhandled exception, whatever the corpus file, the
\* oracle and the number of records.
C5_NoFailureIsFatal == exc = "none"

\* C6 as claimed: every record whose body contains the string find_best_hymns
\* was called with is among the results with score 1.0, and the semantic
\* ranking was not used.
C6_EveryMatchReturned ==
    (pc = "done" /\ Called("find_best_hymns"))
    => \A k \in MatchSet(FindArg) :
          /\ ~Called("model.encode")
          /\ \E r \in Range(top_hymns) :
                r.title = hymn_titles[k] /\ r.score = ScoreExact

\* C6 as amended: when some body contains the string, the results are the
\* first three matching records (all of them when fewer), in corpus order,
\* each with score 1.0, and the semantic ranking was not used.
C6_FirstThreeMatchesReturned ==
    (pc = "done" /\ Called("find_best_hymns") /\ MatchSet(FindArg) # {})
    => /\ ~Called("model.encode")
       /\ { r.title : r \in Range(top_hymns) } = { hymn_titles[k] : k \in FirstThree(FindArg) }
       /\ Len(top_hymns) = Cardinality(FirstThree(FindArg))
       /\ \A r \in Range(top_hymns) : r.score = ScoreExact
       /\ \A a, b \in 1..Len(top_hymns) :
             a < b => \E ka, kb \in FirstThree(FindArg) :
                         /\ ka < kb
                         /\ hymn_titles[ka] = top_hymns[a].title
                         /\ hymn_titles[kb] = top_hymns[b].title

\* C6 witness: four bodies contain "ab", one of them in capitals; three are
\* returned.
C6_Witness ==
    /\ pc = "done"
    /\ Called("find_best_hymns")
    /\ FindArg = <<"a", "b">>
    /\ Cardinality(MatchSet(FindArg)) = 4
    /\ Len(top_hymns) = 3
    /\ \E r \in Range(top_hymns) : Contains(r.lyrics, <<"A", "B">>)

\* C9: find_best_hymns returns at most 3 results in non-increasing score
\* order: the first three matches with score 1.0, or else the 3 records of
\* highest similarity.
C9_TopKBoundAndOrder ==
    (Called("find_best_hymns") /\ hymn_titles # <<>>)
    => /\ pc = "done"
       /\ Len(top_hymns) <= 3
       /\ NonIncreasing(top_hymns)
       /\ MatchSet(FindArg) # {}
             => Len(top_hymns) = Cardinality(FirstThree(FindArg))
       /\ MatchSet(FindArg) = {} => Len(top_hymns) = 3

-----------------------------------------------------------------------------
(* The groups of a hymn file, read off the file as a whole *)

SLine(k) == Strip(file.lines[k])
IsHeader(k) == StartsWith(SLine(k), HeaderMarker)
IsTitleLine(k) == ~IsHeader(k) /\ StartsWith(SLine(k), TitleMarker)
Headers == { k \in 1..Len(file.lines) : IsHeader(k) }

\* the last line of the group the header at h opens
GroupEnd(h) ==
    IF \E k \in Headers : k > h
    THEN (CHOOSE k \in Headers : k > h /\ \A j \in Headers : j > h => k <= j) - 1
    ELSE Len(file.lines)

TitleLines(h) == { k \in (h + 1)..GroupEnd(h) : IsTitleLine(k) }
LastTitleLine(h) == CHOOSE k \in TitleLines(h) : \A j \in TitleLines(h) : j <= k

\* the non-blank lines of the group that are not title lines, trimmed, in order
RECURSIVE BodyFrom(_, _)
BodyFrom(k, e) ==
    IF k > e THEN <<>>
    ELSE (IF ~IsTitleLine(k) /\ SLine(k) # <<>> THEN <<SLine(k)>> ELSE <<>>)
         \o BodyFrom(k + 1, e)
GroupBodyText(h) == Join(BodyFrom(h + 1, GroupEnd(h)))

\* the number a key "GHS <number> - <title>" carries
NumberOf(key) == Split(key)[2]

\* the group has a number and a title of its own
Complete(h) ==
    /\ Truthy(HeaderNumber(SLine(h)))
    /\ TitleLines(h) # {}
    /\ Truthy(TitleOf(SLine(LastTitleLine(h))))

CompleteKey(h) == HymnKey(HeaderNumber(SLine(h)), TitleOf(SLine(LastTitleLine(h))))

\* "# GHS <number>": one blank, then a number token
ProperHeader(k) ==
    /\ Len(SLine(k)) > Len(HeaderMarker) + 1
    /\ SLine(k)[Len(HeaderMarker) + 1] = " "
    /\ \A j \in (Len(HeaderMarker) + 2)..Len(SLine(k)) : SLine(k)[j] \notin Whitespace
ProperNumber(h) == SubSeq(SLine(h), Len(HeaderMarker) + 2, Len(SLine(h)))

\* "Title: <title>": what follows the marker, trimmed
TitleText(k) == Strip(SubSeq(SLine(k), Len(TitleMarker) + 1, Len(SLine(k))))

\* header, title, body lines, group after group, with distinct numbers
WellFormed ==
    /\ file.exists
    /\ Headers # {}
    /\ 1 \in Headers
    /\ \A h \in Headers :
          /\ ProperHeader(h)
          /\ TitleLines(h) = {h + 1}
          /\ TitleText(h + 1) # <<>>
    /\ \A g, h \in Headers : g # h => ProperNumber(g) # ProperNumber(h)

NthHeader(n) == CHOOSE h \in Headers : Cardinality({ g \in Headers : g <= h }) = n

-----------------------------------------------------------------------------
\* C7: a well-formed source of N groups with distinct numbers loads as exactly
\* N records in source order, each with its group's number, title and trimmed
\* non-blank body lines, and with no line of another group.
C7_ParseRoundTrip ==
    (Loaded /\ WellFormed)
    => /\ Len(hymns) = Cardinality(Headers)
       /\ \A n \in 1..Len(hymns) :
             LET h == NthHeader(n)
             IN /\ hymns[n].key = HymnKey(ProperNumber(h), TitleText(h + 1))
                /\ hymns[n].val = GroupBodyText(h)
                /\ ProperNumber(h) \in DOMAIN hymn_dict
                /\ hymn_dict[ProperNumber(h)] = hymns[n].key

\* C8: every record of the loaded corpus is the record of a group that has a
\* header number and a title of its own; a group without one of them leaves no
\* record, neither at the next header nor at the end of input.
C8_OnlyCompleteGroups ==
    Loaded
    => /\ \A r \in Range(hymns) :
             \E h \in Headers :
                Complete(h) /\ r.key = CompleteKey(h) /\ r.val = GroupBodyText(h)
       /\ \A n \in DOMAIN hymn_dict :
             \E h \in Headers :
                Complete(h) /\ HeaderNumber(SLine(h)) = n /\ hymn_dict[n] = CompleteKey(h)

\* C8 witness: a group with a number and no title, then a complete group,
\* then a last group whose header has no number; one record is loaded.
C8_Witness ==
    /\ pc = "loaded"
    /\ Len(hymns) = 1
    /\ \E g, h, l \in Headers :
          /\ g < h /\ h < l
          /\ Truthy(HeaderNumber(SLine(g))) /\ TitleLines(g) = {}
          /\ Complete(h)
          /\ HeaderNumber(SLine(l)) = NoneVal /\ GroupEnd(l) = Len(file.lines)
          /\ TitleLines(l) # {}

\* C10: hymn_dict and hymns agree: the keys of hymn_dict are the numbers of
\* the records, its values are keys of hymns, and no two records share a
\* number.
C10_MappingConsistent ==
    Loaded
    => /\ DOMAIN hymn_dict = { NumberOf(r.key) : r \in Range(hymns) }
       /\ \A n \in DOMAIN hymn_dict : HasKey(hymns, hymn_dict[n])
       /\ \A a, b \in 1..Len(hymns) :
             a # b => NumberOf(hymns[a].key) # NumberOf(hymns[b].key)

====
